---- MODULE Spec2Model ----
(***************************************************************************)
(* A model of script.js (class StockChart): CSV load, 20-period moving     *)
(* average, the base-canvas draw (plotChart and its helpers), the overlay  *)
(* crosshair handlers and the wheel zoom handler.                          *)
(*                                                                         *)
(* Numbers.  JavaScript numbers are modelled as extended rationals: a      *)
(* record [k, n, d] with k = "fin" (the value n/d, d > 0, in lowest terms),*)
(* "pinf", "ninf" or "nan".  Division by zero, Infinity and NaN behave as  *)
(* in IEEE-754; rounding of finite results is not modelled, except in the  *)
(* canvas width update, where the exact double result is reproduced.       *)
(***************************************************************************)
EXTENDS Integers, Sequences, FiniteSets

\* ------------------------------------------------------------------ bounds

\* Largest number of data rows of a loaded CSV body.
MaxRows == 25
\* Wheel events handled in one run.
MaxWheel == 5
\* Date labels after which the model stops following the label loop.
MaxLabels == 20

\* ------------------------------------------------------- extended rationals

Abs(i) == IF i < 0 THEN -i ELSE i

Sgn(i) == IF i < 0 THEN -1 ELSE IF i = 0 THEN 0 ELSE 1

RECURSIVE Gcd(_, _)
Gcd(a, b) == IF b = 0 THEN a ELSE Gcd(b, a % b)

Fin(n, d) ==
    LET g == Gcd(Abs(n), Abs(d))
        s == IF d < 0 THEN -1 ELSE 1
    IN  [k |-> "fin", n |-> (s * n) \div g, d |-> (s * d) \div g]

Num(i) == [k |-> "fin", n |-> i, d |-> 1]

PInf == [k |-> "pinf", n |-> 0, d |-> 1]

NInf == [k |-> "ninf", n |-> 0, d |-> 1]

NaN == [k |-> "nan", n |-> 0, d |-> 1]

IsFinite(a) == a.k = "fin"

\* -1, 0 or 1; meaningless for NaN.
SignOf(a) == IF a.k = "pinf" THEN 1 ELSE IF a.k = "ninf" THEN -1 ELSE Sgn(a.n)

Signed(s) == IF s < 0 THEN NInf ELSE PInf

Neg(a) ==
    CASE a.k = "fin" -> Fin(-a.n, a.d)
      [] a.k = "pinf" -> NInf
      [] a.k = "ninf" -> PInf
      [] OTHER -> NaN

Add(a, b) ==
    CASE a.k = "nan" \/ b.k = "nan" -> NaN
      [] a.k = "fin" /\ b.k = "fin" -> Fin(a.n * b.d + b.n * a.d, a.d * b.d)
      [] a.k = "fin" -> b
      [] b.k = "fin" -> a
      [] a.k = b.k -> a
      [] OTHER -> NaN

Sub(a, b) == Add(a, Neg(b))

Mul(a, b) ==
    CASE a.k = "nan" \/ b.k = "nan" -> NaN
      [] a.k = "fin" /\ b.k = "fin" -> Fin(a.n * b.n, a.d * b.d)
      [] SignOf(a) = 0 \/ SignOf(b) = 0 -> NaN
      [] OTHER -> Signed(SignOf(a) * SignOf(b))

\* Every zero divisor of the program is a positive zero (a count, or a
\* difference of two equal numbers), so x / 0 takes the sign of x.
Div(a, b) ==
    CASE a.k = "nan" \/ b.k = "nan" -> NaN
      [] a.k = "fin" /\ b.k = "fin" ->
            IF b.n # 0 THEN Fin(a.n * b.d, a.d * b.n)
            ELSE IF a.n = 0 THEN NaN ELSE Signed(a.n)
      [] a.k = "fin" -> Num(0)
      [] b.k = "fin" -> Signed(SignOf(a) * (IF b.n < 0 THEN -1 ELSE 1))
      [] OTHER -> NaN

\* Math.floor
Floor(a) == IF a.k = "fin" THEN Num(a.n \div a.d) ELSE a

\* a < b, false when either is NaN
Lt(a, b) ==
    CASE a.k = "nan" \/ b.k = "nan" -> FALSE
      [] a.k = "fin" /\ b.k = "fin" -> a.n * b.d < b.n * a.d
      [] a.k = "ninf" -> b.k # "ninf"
      [] b.k = "pinf" -> a.k # "pinf"
      [] OTHER -> FALSE

\* a <= b, false when either is NaN
Le(a, b) ==
    CASE a.k = "nan" \/ b.k = "nan" -> FALSE
      [] a.k = "fin" /\ b.k = "fin" -> a.n * b.d <= b.n * a.d
      [] OTHER -> a.k = b.k \/ Lt(a, b)

\* ------------------------------------------------------------ the CSV body

\* A field of a line: text (a label, v its token) or a decimal literal (v its
\* value).
Txt(v) == [t |-> "txt", v |-> v]

Dec(v) == [t |-> "num", v |-> v]

\* The header line date,open,high,low,close
Header == <<Txt(0), Txt(0), Txt(0), Txt(0), Txt(0)>>

Shapes == {"flat", "ramp", "wave"}

\* The close of data row i (1-based) of a body of the given shape.
CloseOf(shape, i) ==
    CASE shape = "flat" -> 50
      [] shape = "ramp" -> 40 + i
      [] OTHER -> 50 + ((7 * i) % 5) - ((3 * i) % 4)

\* One data line, split in its five fields; the date label of row i is the
\* token i.
Row(shape, i) ==
    <<Txt(i), Dec(CloseOf(shape, i) - 1), Dec(CloseOf(shape, i) + 2),
      Dec(CloseOf(shape, i) - 2), Dec(CloseOf(shape, i))>>

Body(n, shape) == <<Header>> \o [i \in 1..n |-> Row(shape, i)]

Lengths == {0, 1, 9, 10, 19, 20, MaxRows}

Bodies == {Body(n, s) : n \in Lengths, s \in Shapes}

\* Width and height attributes of the two canvases of the page.
InitWidths == {300, 133}

InitHeights == {150}

\* Pointer positions, relative to the overlay canvas.
PointerXs == {30, 55, 60, 66, 80, 100}

PointerYs == {70}

DeltaYs == {-100, 0, 100}

\* ------------------------------------------------------------------- state

VARIABLES
    pc,                 \* "fetch": awaiting the response; "labels": inside the
                        \* date-label loop of drawAxisLabels; "idle": no handler
                        \* running; "failed": the catch of fetchCSVData ran
    caller,             \* who called the running plotChart: "load" or "wheel"
    csvData,            \* the lines of the response body, <<>> before it arrives
    fullData,           \* this.fullData
    closingPrices,      \* this.closingPrices
    movingAverage,      \* this.movingAverage
    stockWidth,         \* this.stockCanvas.width
    stockHeight,        \* this.stockCanvas.height
    draw,               \* the locals of the running or latest plotChart
    labelI,             \* the loop variable i of the date-label loop
    ctx,                \* what the base canvas holds since its last clearRect
    overlayCtx,         \* what the overlay canvas holds since its last clearRect
    mousemoveListeners, \* the 'mousemove' closures of the overlay, in order
    mouseoutListeners,  \* the number of 'mouseout' closures of the overlay
    wheelListeners,     \* the number of 'wheel' closures of .chart-container
    lastMove,           \* what the dispatch of the latest mousemove did
    zoomRun,            \* the latest run of zoom-ins followed by zoom-outs
    wheelCount          \* wheel events handled so far

vars ==
    <<pc, caller, csvData, fullData, closingPrices, movingAverage, stockWidth,
      stockHeight, draw, labelI, ctx, overlayCtx, mousemoveListeners,
      mouseoutListeners, wheelListeners, lastMove, zoomRun, wheelCount>>

\* this.padding
padding == 60

\* const period
period == 20

\* const zoomFactor = 1.1, as the fraction ZoomNum / ZoomDen
ZoomNum == 11

ZoomDen == 10

NoDraw ==
    [width |-> 0, height |-> 0, maxPrice |-> NaN, minPrice |-> NaN,
     xScale |-> NaN, yScale |-> NaN]

BlankCtx ==
    [gridLines |-> 0, priceLabels |-> <<>>, dateLabels |-> <<>>,
     areaVertices |-> 0, maVertices |-> 0]

\* crosshairs: the pointer positions a crosshair is drawn through; readouts:
\* the 0-based indices of the records whose OHLC text is drawn.
BlankOverlay == [crosshairs |-> <<>>, readouts |-> <<>>]

NoMove == [x |-> -1, passes |-> 0, lookups |-> {}]

NoRun == [start |-> 0, ups |-> 0, downs |-> 0]

\* The state the constructor leaves, the fetch pending.
Init ==
    /\ pc = "fetch"
    /\ caller = "load"
    /\ csvData = <<>>
    /\ fullData = <<>>
    /\ closingPrices = <<>>
    /\ movingAverage = <<>>
    /\ stockWidth \in InitWidths
    /\ stockHeight \in InitHeights
    /\ draw = NoDraw
    /\ labelI = 0
    /\ ctx = BlankCtx
    /\ overlayCtx = BlankOverlay
    /\ mousemoveListeners = <<>>
    /\ mouseoutListeners = 0
    /\ wheelListeners = 0
    /\ lastMove = NoMove
    /\ zoomRun = NoRun
    /\ wheelCount = 0

\* ------------------------------------------------------------- the load

\* DataLines without the slice(1): the header line is parsed as a record.
DataLines_KeepHeader(body) == body

\* csvData.trim().split('\n').slice(1)
DataLines(body) == SubSeq(body, 2, Len(body))

\* parseFloat(field): NaN for a field that is no number
parseFloat(f) == IF f.t = "num" THEN Num(f.v) ELSE NaN

\* processCSVData: one record per data line, in input order; the first field
\* is kept as it is, the others go through parseFloat.
processCSVData(body) ==
    [i \in 1..Len(DataLines(body)) |->
        LET f == DataLines(body)[i]
        IN  [date |-> f[1], open |-> parseFloat(f[2]), high |-> parseFloat(f[3]),
             low |-> parseFloat(f[4]), close |-> parseFloat(f[5])]]

ClosingOf(data) == [i \in 1..Len(data) |-> [date |-> data[i].date, close |-> data[i].close]]

RECURSIVE SumClose(_, _, _)
\* closingPrices.slice(from, to).reduce((acc, val) => acc + val.close, 0), 0-based
SumClose(prices, from, to) ==
    IF from >= to THEN Num(0) ELSE Add(SumClose(prices, from, to - 1), prices[to].close)

\* MovingAveragePoint with the window cut one sample short: slice(i - (period - 1), i)
MovingAveragePoint_ShortWindow(prices, i) ==
    [date |-> prices[i + 1].date,
     avg |-> Div(SumClose(prices, i - (period - 1), i), Num(period))]

\* The point pushed for 0-based index i >= period - 1.
MovingAveragePoint(prices, i) ==
    [date |-> prices[i + 1].date,
     avg |-> Div(SumClose(prices, i - (period - 1), i + 1), Num(period))]

RECURSIVE MovingAverageFrom(_, _)
MovingAverageFrom(prices, i) ==
    IF i >= Len(prices) THEN <<>>
    ELSE (IF i >= period - 1 THEN <<MovingAveragePoint(prices, i)>> ELSE <<>>)
         \o MovingAverageFrom(prices, i + 1)

\* calculateMovingAverage
calculateMovingAverage(prices) == MovingAverageFrom(prices, 0)

\* ----------------------------------------------------------- plotChart

\* Math.max and Math.min of two numbers: NaN if either is NaN
Max2(a, b) == IF a.k = "nan" \/ b.k = "nan" THEN NaN ELSE IF Lt(a, b) THEN b ELSE a

Min2(a, b) == IF a.k = "nan" \/ b.k = "nan" THEN NaN ELSE IF Lt(b, a) THEN b ELSE a

RECURSIVE MaxClose(_, _)
\* Math.max(...this.fullData.map(p => p.close)) over rows 1..n; -Infinity of none
MaxClose(data, n) == IF n = 0 THEN NInf ELSE Max2(MaxClose(data, n - 1), data[n].close)

RECURSIVE MinClose(_, _)
\* Math.min(...this.fullData.map(p => p.close)) over rows 1..n; Infinity of none
MinClose(data, n) == IF n = 0 THEN PInf ELSE Min2(MinClose(data, n - 1), data[n].close)

\* const xScale = width / this.fullData.length
XScaleOf(width, n) == Div(Num(width), Num(n))

\* const yScale = height / (maxPrice - minPrice)
YScaleOf(height, maxPrice, minPrice) == Div(Num(height), Sub(maxPrice, minPrice))

\* The locals plotChart computes before it draws.
PlotLocals(canvasWidth, canvasHeight, data) ==
    LET width == canvasWidth - 2 * padding
        height == canvasHeight - 2 * padding
        maxPrice == MaxClose(data, Len(data))
        minPrice == MinClose(data, Len(data))
    IN  [width |-> width, height |-> height, maxPrice |-> maxPrice,
         minPrice |-> minPrice, xScale |-> XScaleOf(width, Len(data)),
         yScale |-> YScaleOf(height, maxPrice, minPrice)]

\* const x = this.padding + index * xScale
IndexToX(xScale, index) == Add(Num(padding), Mul(Num(index), xScale))

\* const y = this.padding + height - (price - minPrice) * yScale
PriceToY(d, price) ==
    Sub(Num(padding + d.height), Mul(Sub(price, d.minPrice), d.yScale))

\* i += Math.floor(this.fullData.length / 10)
LabelStepOf(n) == n \div 10

\* A path call (moveTo, lineTo) adds a vertex only when both arguments are
\* finite; the canvas ignores the call otherwise.
Vertex(x, y) == IF IsFinite(x) /\ IsFinite(y) THEN 1 ELSE 0

RECURSIVE AreaCalls(_, _, _)
\* The vertices the forEach of plotClosingPrices adds for rows 1..n.
AreaCalls(d, data, n) ==
    IF n = 0 THEN 0
    ELSE LET x == IndexToX(d.xScale, n - 1)
             y == PriceToY(d, data[n].close)
         IN  AreaCalls(d, data, n - 1)
             + (IF n = 1 THEN Vertex(x, Num(d.height + padding)) ELSE 0)
             + Vertex(x, y)

\* plotClosingPrices: the forEach, then the lineTo back to the baseline.
plotClosingPrices(d, data) ==
    AreaCalls(d, data, Len(data))
    + Vertex(IndexToX(d.xScale, Len(data) - 1), Num(d.height + padding))

RECURSIVE plotMovingAverage(_, _, _)
\* plotMovingAverage: point j (0-based) is drawn at x index j.
plotMovingAverage(d, ma, n) ==
    IF n = 0 THEN 0
    ELSE plotMovingAverage(d, ma, n - 1)
         + Vertex(IndexToX(d.xScale, n - 1), PriceToY(d, ma[n].avg))

\* plotChart up to the date-label loop: the locals, both clearRect calls,
\* drawGridLines and the price labels of drawAxisLabels.
PlotStart(who, canvasWidth, data) ==
    /\ pc' = "labels"
    /\ caller' = who
    /\ draw' = PlotLocals(canvasWidth, stockHeight, data)
    /\ ctx' = [BlankCtx EXCEPT !.gridLines = 6, !.priceLabels = 6]
    /\ overlayCtx' = BlankOverlay
    /\ lastMove' = NoMove
    /\ labelI' = 0

\* fetchCSVData, the response arrived: processCSVData, calculateMovingAverage
\* and plotChart(true) up to its date-label loop.
FetchOk ==
    /\ pc = "fetch"
    /\ \E body \in Bodies :
        LET data == fullData \o processCSVData(body)
            prices == closingPrices \o ClosingOf(processCSVData(body))
        IN  /\ csvData' = body
            /\ fullData' = data
            /\ closingPrices' = prices
            /\ movingAverage' = movingAverage \o calculateMovingAverage(prices)
            /\ PlotStart("load", stockWidth, data)
    /\ UNCHANGED <<stockWidth, stockHeight, mousemoveListeners, mouseoutListeners,
                   wheelListeners, zoomRun, wheelCount>>

\* fetchCSVData, the fetch rejected: the catch logs and nothing is drawn.
FetchFail ==
    /\ pc = "fetch"
    /\ pc' = "failed"
    /\ UNCHANGED <<caller, csvData, fullData, closingPrices, movingAverage,
                   stockWidth, stockHeight, draw, labelI, ctx, overlayCtx,
                   mousemoveListeners, mouseoutListeners, wheelListeners,
                   lastMove, zoomRun, wheelCount>>

\* One iteration of the date-label loop of drawAxisLabels.
LabelStep ==
    /\ pc = "labels"
    /\ labelI < Len(fullData)
    /\ Len(ctx.dateLabels) < MaxLabels
    /\ ctx' = [ctx EXCEPT !.dateLabels = Append(@, fullData[labelI + 1].date)]
    /\ labelI' = labelI + LabelStepOf(Len(fullData))
    /\ UNCHANGED <<pc, caller, csvData, fullData, closingPrices, movingAverage,
                   stockWidth, stockHeight, draw, overlayCtx, mousemoveListeners,
                   mouseoutListeners, wheelListeners, lastMove, zoomRun, wheelCount>>

\* addCrosshairsFunctionality: one more 'mousemove' closure over (xScale,
\* height) and one more 'mouseout' closure.
addCrosshairsFunctionality(listeners, xScale, height) ==
    Append(listeners, [xScale |-> xScale, height |-> height])

\* The date-label loop has ended: the rest of plotChart (plotClosingPrices,
\* plotMovingAverage, addCrosshairsFunctionality) and, in the load,
\* addEventListeners.
PlotFinish ==
    /\ pc = "labels"
    /\ ~(labelI < Len(fullData))
    /\ ctx' = [ctx EXCEPT !.areaVertices = plotClosingPrices(draw, fullData),
                          !.maVertices = plotMovingAverage(draw, movingAverage, Len(movingAverage))]
    /\ mousemoveListeners' = addCrosshairsFunctionality(mousemoveListeners, draw.xScale, draw.height)
    /\ mouseoutListeners' = mouseoutListeners + 1
    /\ wheelListeners' = IF caller = "load" THEN wheelListeners + 1 ELSE wheelListeners
    /\ pc' = "idle"
    /\ UNCHANGED <<caller, csvData, fullData, closingPrices, movingAverage,
                   stockWidth, stockHeight, draw, labelI, overlayCtx, lastMove,
                   zoomRun, wheelCount>>

\* ------------------------------------------------------------ the handlers

RECURSIVE Pow2Floor(_)
\* The largest power of two not above k (k >= 1).
Pow2Floor(k) == IF k < 2 THEN 1 ELSE 2 * Pow2Floor(k \div 2)

\* this.stockCanvas.width *= zoomFactor.  The attribute is an unsigned long:
\* the setter truncates the product.  w * 1.1 is never below 11w/10 as a
\* double, so the truncation is that of the exact product.
ZoomIn(w) == (w * ZoomNum) \div ZoomDen

\* this.stockCanvas.width /= zoomFactor, truncated by the setter.  The double
\* nearest 1.1 exceeds 11/10 by 8.9e-17, so for w = 11m the quotient is
\* 10m(1 - 8.1e-17): it rounds to the double below 10m exactly when
\* 10m > 1.375 * 2^floor(log2(10m)), and then truncates to 10m - 1
\* (110 / 1.1 is 99.99999999999999).
ZoomOut(w) ==
    LET k == (w * ZoomDen) \div ZoomNum
    IN  IF (w * ZoomDen) % ZoomNum = 0 /\ k > 0 /\ 8 * k > 11 * Pow2Floor(k)
        THEN k - 1 ELSE k

\* The width the wheel handler assigns for an event with this deltaY.
WheelWidth(w, deltaY) == IF deltaY < 0 THEN ZoomIn(w) ELSE ZoomOut(w)

\* The run of zoom-ins followed by zoom-outs that the event extends or opens.
NextRun(run, deltaY, w) ==
    IF deltaY < 0
    THEN IF run.ups > 0 /\ run.downs = 0
         THEN [run EXCEPT !.ups = @ + 1]
         ELSE [start |-> w, ups |-> 1, downs |-> 0]
    ELSE IF run.ups > run.downs
         THEN [run EXCEPT !.downs = @ + 1]
         ELSE NoRun

\* The 'wheel' listener on an event with this deltaY: the width update, then
\* plotChart(true) up to its date-label loop.
WheelOn(deltaY) ==
    /\ pc = "idle"
    /\ wheelListeners > 0
    /\ wheelCount < MaxWheel
    /\ stockWidth' = WheelWidth(stockWidth, deltaY)
    /\ zoomRun' = NextRun(zoomRun, deltaY, stockWidth)
    /\ PlotStart("wheel", WheelWidth(stockWidth, deltaY), fullData)
    /\ wheelCount' = wheelCount + 1
    /\ UNCHANGED <<csvData, fullData, closingPrices, movingAverage, stockHeight,
                   mousemoveListeners, mouseoutListeners, wheelListeners>>

Wheel == \E deltaY \in DeltaYs : WheelOn(deltaY)

\* const dataIndex = Math.floor((x - this.padding) / xScale)
XToIndex(x, xScale) == Floor(Div(Sub(x, Num(padding)), xScale))

\* if (dataIndex >= 0 && dataIndex < this.fullData.length)
InRange(dataIndex, n) == Le(Num(0), dataIndex) /\ Lt(dataIndex, Num(n))

\* One 'mousemove' closure: clearRect, the two crosshair lines, and the OHLC
\* text of the record under the pointer, when there is one.
MovePass(listener, x, y, n) ==
    LET dataIndex == XToIndex(Num(x), listener.xScale)
    IN  [crosshairs |-> <<(<<x, y>>)>>,
         readouts |-> IF InRange(dataIndex, n) THEN <<dataIndex.n>> ELSE <<>>]

RECURSIVE Lookups(_, _, _, _)
\* The indices the first k closures look up in this.fullData.
Lookups(listeners, k, x, n) ==
    IF k = 0 THEN {}
    ELSE Lookups(listeners, k - 1, x, n)
         \cup (IF InRange(XToIndex(Num(x), listeners[k].xScale), n)
               THEN {XToIndex(Num(x), listeners[k].xScale).n} ELSE {})

\* A 'mousemove' on the overlay: every registered closure runs, in the order
\* of registration; each clears the overlay first, so the overlay ends as the
\* last one leaves it.
MouseMove ==
    /\ pc = "idle"
    /\ Len(mousemoveListeners) > 0
    /\ \E x \in PointerXs, y \in PointerYs :
        /\ overlayCtx' = MovePass(mousemoveListeners[Len(mousemoveListeners)], x, y, Len(fullData))
        /\ lastMove' = [x |-> x, passes |-> Len(mousemoveListeners),
                        lookups |-> Lookups(mousemoveListeners, Len(mousemoveListeners), x, Len(fullData))]
    /\ UNCHANGED <<pc, caller, csvData, fullData, closingPrices, movingAverage,
                   stockWidth, stockHeight, draw, labelI, ctx, mousemoveListeners,
                   mouseoutListeners, wheelListeners, zoomRun, wheelCount>>

\* A 'mouseout' on the overlay: every registered closure clears the overlay.
MouseOut ==
    /\ pc = "idle"
    /\ mouseoutListeners > 0
    /\ overlayCtx' = BlankOverlay
    /\ lastMove' = NoMove
    /\ UNCHANGED <<pc, caller, csvData, fullData, closingPrices, movingAverage,
                   stockWidth, stockHeight, draw, labelI, ctx, mousemoveListeners,
                   mouseoutListeners, wheelListeners, zoomRun, wheelCount>>

Next ==
    \/ FetchOk
    \/ FetchFail
    \/ LabelStep
    \/ PlotFinish
    \/ Wheel
    \/ MouseMove
    \/ MouseOut

Spec == Init /\ [][Next]_vars

\* ============================================================== properties

\* The total of the close fields of the body's data rows j .. j+m-1 (0-based),
\* read from the lines of the response.
RECURSIVE WindowTotal(_, _)
WindowTotal(j, m) == IF m = 0 THEN 0 ELSE csvData[j + m + 1][5].v + WindowTotal(j, m - 1)

\* C1: once the body is loaded, N parsed records give exactly max(0, N - 19)
\* moving-average points, and point j (0-based, j in 0..N-20) has avg equal to
\* the unweighted mean of the closes of source rows j..j+19 and carries the
\* date label of source row j+19.
C1_MovingAverage ==
    csvData # <<>> =>
        LET N == Len(fullData)
        IN  /\ Len(movingAverage) = (IF N - 19 > 0 THEN N - 19 ELSE 0)
            /\ \A j \in 0..(N - 20) :
                /\ Mul(movingAverage[j + 1].avg, Num(20)) = Num(WindowTotal(j, 20))
                /\ movingAverage[j + 1].date = fullData[j + 20].date

\* C1 witness: 25 or more records loaded, the average has N - 19 points, the
\* first dated as source row 19, and the averages differ along the series.
C1_Witness ==
    /\ Len(fullData) >= 25
    /\ Len(movingAverage) = Len(fullData) - 19
    /\ movingAverage[1].date = Txt(20)
    /\ movingAverage[1].avg # movingAverage[2].avg

\* C8: a header-only body gives empty fullData, closingPrices and
\* movingAverage; the date-label loop of the following plotChart exits at
\* once, no error path is taken, the draw leaves the six grid lines and six
\* price labels but no date label, no price-area vertex and no
\* moving-average vertex, and when the load is over the wheel, mousemove
\* and mouseout listeners are registered.
C8_HeaderOnly ==
    Len(csvData) = 1 =>
        /\ Len(fullData) = 0 /\ Len(closingPrices) = 0 /\ movingAverage = <<>>
        /\ pc \in {"labels", "idle"}
        /\ ~(labelI < Len(fullData))
        /\ ctx.gridLines = 6 /\ ctx.priceLabels = 6
        /\ ctx.dateLabels = <<>> /\ ctx.areaVertices = 0 /\ ctx.maVertices = 0
        /\ pc = "idle" =>
            /\ wheelListeners = 1
            /\ Len(mousemoveListeners) >= 1
            /\ mouseoutListeners >= 1

\* C8 witness: the load of a header-only body is over, the draw done and the
\* listeners registered.
C8_Witness ==
    /\ Len(csvData) = 1
    /\ pc = "idle"
    /\ wheelCount = 0
    /\ ctx.gridLines = 6
    /\ wheelListeners = 1
    /\ Len(mousemoveListeners) = 1

\* C2: the date-label loop terminates for every N: whenever it is about to
\* run an iteration its step floor(N / 10) is at least 1, and with fewer
\* than 10 records no date label is drawn.
C2_LabelLoopGuarded ==
    /\ (pc = "labels" /\ labelI < Len(fullData)) => LabelStepOf(Len(fullData)) >= 1
    /\ Len(fullData) < 10 => ctx.dateLabels = <<>>

\* The width is back at its value w0: equal within one pixel, or within one
\* percent.
BackAt(w, w0) == Abs(w - w0) <= 1 \/ 100 * Abs(w - w0) <= w0

\* C3: after n zoom-ins followed by n zoom-outs (n >= 1) the canvas width is
\* back at its value before the first of them, within rounding tolerance.
C3_ZoomRoundTrip ==
    (zoomRun.ups >= 1 /\ zoomRun.downs = zoomRun.ups) => BackAt(stockWidth, zoomRun.start)

\* C4: for the scale of every completed draw, the hit test inverts
\* indexToX: floor((indexToX(i) - padding) / xScale) = i for every index i
\* in 0..N-1.
C4_HitTestInverse ==
    pc = "idle" =>
        \A i \in 0..(Len(fullData) - 1) :
            XToIndex(IndexToX(draw.xScale, i), draw.xScale) = Num(i)

\* C5: a pointer-move whose x is outside [padding, padding + contentWidth]
\* leaves no OHLC readout on the overlay, and no record was looked up while
\* it was handled.
C5_NoReadoutOutside ==
    (lastMove.passes > 0 /\ (lastMove.x < padding \/ lastMove.x > padding + draw.width)) =>
        /\ overlayCtx.readouts = <<>>
        /\ lastMove.lookups = {}

\* C6: for a non-empty series, after every draw priceToY(maxPrice) <
\* priceToY(minPrice), and priceToY of every close lies within
\* [padding, canvasHeight - padding].
C6_PriceAxis ==
    (pc = "idle" /\ Len(fullData) >= 1) =>
        /\ Lt(PriceToY(draw, draw.maxPrice), PriceToY(draw, draw.minPrice))
        /\ \A i \in 1..Len(fullData) :
            /\ Le(Num(padding), PriceToY(draw, fullData[i].close))
            /\ Le(PriceToY(draw, fullData[i].close), Num(stockHeight - padding))

\* C7: the xScale and yScale plotChart computes are finite for every series
\* (N = 0, N = 1 and equal closes included) and every zoom state.
C7_FiniteScales ==
    csvData # <<>> => IsFinite(draw.xScale) /\ IsFinite(draw.yScale)

\* The width is w times 1.1, up to the truncation to a whole pixel.
Times11(w2, w) == ZoomDen * w2 <= ZoomNum * w /\ ZoomNum * w < ZoomDen * (w2 + 1)

\* The width is w over 1.1, within one pixel.
Over11(w2, w) == Abs(ZoomNum * w2 - ZoomDen * w) <= ZoomNum

\* C9: the canvas width changes only in the wheel handler: multiplied by 1.1
\* when deltaY < 0, divided by 1.1 when deltaY > 0, left as it is when
\* deltaY = 0; a pointer-move and a pointer-leave leave it as it is; and
\* every wheel event starts a redraw with the scale taken from the new width.
C9_ZoomFrame ==
    [][/\ \A deltaY \in DeltaYs :
            WheelOn(deltaY) =>
                /\ deltaY < 0 => Times11(stockWidth', stockWidth)
                /\ deltaY > 0 => Over11(stockWidth', stockWidth)
                /\ deltaY = 0 => stockWidth' = stockWidth
                /\ pc' = "labels"
                /\ draw'.xScale = XScaleOf(stockWidth' - 2 * padding, Len(fullData))
       /\ ~Wheel => stockWidth' = stockWidth]_vars

\* C10: after the load and any number of wheel events exactly one mousemove
\* and one mouseout closure are registered, the closure tests against the
\* xScale of the latest draw, a pointer-move runs one clear-then-draw pass,
\* and the overlay holds at most one crosshair and one readout.
C10_OneOverlayHandler ==
    pc = "idle" =>
        /\ Len(mousemoveListeners) = 1
        /\ mouseoutListeners = 1
        /\ \A k \in 1..Len(mousemoveListeners) : mousemoveListeners[k].xScale = draw.xScale
        /\ lastMove.passes <= 1
        /\ Len(overlayCtx.crosshairs) <= 1
        /\ Len(overlayCtx.readouts) <= 1

====
